---- MODULE Spec2Model ----
(***************************************************************************)
(* DnaChisel: evaluation and localization of the specifications            *)
(* EnforceGCContent and AvoidNonuniqueSegments.                            *)
(*                                                                         *)
(* A DNA sequence is a TLA+ sequence of one-letter strings; Python indices *)
(* are zero-based and half-open, TLA+ sequences one-based, and the helpers *)
(* below convert.  Floating point fractions (mini, maxi, GC fractions,     *)
(* scores) are exact rationals [n, d], compared by cross-multiplication.   *)
(***************************************************************************)
EXTENDS Integers, Sequences, FiniteSets, TLC

\* ------------------------------------------------------------------ bounds
MaxLen == 4         \* longest enumerated sequence of an EnforceGCContent problem
MaxUniqLen == 4     \* longest enumerated sequence of an AvoidNonuniqueSegments problem
MaxWindow == 2      \* largest enumerated sliding window
MaxKmer == 2        \* largest enumerated min_length

\* ------------------------------------------------------------ Python values
None == [type |-> "None"]
AttributeError == [type |-> "AttributeError"]
WindowNone == 0     \* window=None (a window is a positive int otherwise)

Rat(n, d) == [n |-> n, d |-> d]
Max(a, b) == IF a >= b THEN a ELSE b
Min(a, b) == IF a <= b THEN a ELSE b

\* sequence[a:b] of Python, for 0 <= a
PySlice(s, a, b) == SubSeq(s, a + 1, Min(b, Len(s)))

\* ---------------------------------------------------------------- Location
Location(start, end) == [type |-> "Location", start |-> start, end |-> end, strand |-> 0]

overlap_region(self, other) ==
    LET start == Max(self.start, other.start)
        end   == Min(self.end, other.end)
    IN  IF end > start
        THEN [type |-> "Location", start |-> start, end |-> end, strand |-> self.strand]
        ELSE None

extended(self, margin) ==
    [type |-> "Location", start |-> Max(0, self.start - margin),
     end |-> self.end + margin, strand |-> self.strand]

complement(c) ==
    CASE c = "A" -> "T"
      [] c = "T" -> "A"
      [] c = "G" -> "C"
      [] c = "C" -> "G"

reverse_complement(sequence) ==
    [i \in 1..Len(sequence) |-> complement(sequence[Len(sequence) + 1 - i])]

extract_sequence(self, sequence) ==
    LET result == PySlice(sequence, self.start, self.end)
    IN  IF self.strand = -1 THEN reverse_complement(result) ELSE result

\* ---------------------------------------------------------------- biotools
IsGC(c) == c \in {"G", "C"}

\* np.cumsum(arr_GCs)[j-1]: the number of G/C among the first j symbols
cumsum(sequence, j) == Cardinality({p \in 1..j : IsGC(sequence[p])})

\* The fractions of G/C: one per window start when a window is given, one
\* for the whole sequence otherwise (numpy treats that scalar as one entry).
gc_content(sequence, window_size) ==
    IF window_size = WindowNone
    THEN << Rat(cumsum(sequence, Len(sequence)), Len(sequence)) >>
    ELSE [i \in 1..(Len(sequence) - window_size + 1) |->
             Rat(cumsum(sequence, i + window_size - 1) - cumsum(sequence, i - 1),
                 window_size)]

\* ------------------------------------------------------------ Specification
VoidSpecification(parent) == [type |-> "VoidSpecification"]

SpecEvaluation(score, locations, message) ==
    [type |-> "SpecEvaluation", score |-> score, locations |-> locations,
     message |-> message]

\* VoidSpecification.evaluate
VoidSpecification_evaluate(self, sequence) ==
    SpecEvaluation(Rat(0, 1), <<>>, "Pass (not evaluated)")

copy_with_changes_location(self, location) == [self EXCEPT !.location = location]

\* --------------------------------------------------------- EnforceGCContent
EnforceGCContent_init(mini, maxi, target, window, location, boost) ==
    [type |-> "EnforceGCContent",
     target |-> target,
     mini |-> IF target # None THEN target ELSE mini,
     maxi |-> IF target # None THEN target ELSE maxi,
     window |-> window,
     location |-> location,
     boost |-> boost]

EnforceGCContent_initialize_on_problem(self, sequence) ==
    IF self.location = None
    THEN copy_with_changes_location(self, Location(0, Len(sequence)))
    ELSE self

\* (a variant that forgets the np.maximum(0, gc - maxi) term)
breach_mini_only(mini, maxi, gc) ==
    Max(0, mini.n * gc.d - gc.n * mini.d) * maxi.d

\* np.maximum(0, mini - gc) + np.maximum(0, gc - maxi), as a numerator over
\* the denominator mini.d * maxi.d * gc.d
breach(mini, maxi, gc) ==
    Max(0, mini.n * gc.d - gc.n * mini.d) * maxi.d
    + Max(0, gc.n * maxi.d - maxi.n * gc.d) * mini.d

RECURSIVE SumTo(_, _)
SumTo(f, n) == IF n = 0 THEN 0 ELSE f[n] + SumTo(f, n - 1)

\* (breaches > 0).nonzero()[0]: the zero-based indices of the breaches
RECURSIVE nonzero(_, _)
nonzero(breaches, n) ==
    IF n = 0 THEN <<>>
    ELSE IF breaches[n] > 0 THEN Append(nonzero(breaches, n - 1), n - 1)
         ELSE nonzero(breaches, n - 1)

\* (a variant that opens a new run as soon as i is past the run's end)
starts_new_run_narrow(i, last_end, window) == i > last_end

\* if (i > last_end + self.window): the breach at i opens a new run
starts_new_run(i, last_end, window) == i > last_end + window

\* The loop over breaches_starts[1:] and the append that follows it
RECURSIVE merge_loop(_, _, _, _, _, _, _)
merge_loop(starts, k, current_start, last_end, acc, window, wstart) ==
    IF k > Len(starts)
    THEN Append(acc, <<wstart + current_start, wstart + last_end>>)
    ELSE LET i == starts[k]
         IN  IF starts_new_run(i, last_end, window)
             THEN merge_loop(starts, k + 1, i, i + window,
                             Append(acc, <<wstart + current_start, wstart + last_end>>),
                             window, wstart)
             ELSE merge_loop(starts, k + 1, current_start, i + window, acc,
                             window, wstart)

breaches_locations_of(breaches_starts, window, wstart, wend) ==
    IF Len(breaches_starts) = 0 THEN <<>>
    ELSE IF Len(breaches_starts) = 1
    THEN IF window # WindowNone
         THEN << <<breaches_starts[1], breaches_starts[1] + window>> >>
         ELSE << <<wstart, wend>> >>
    ELSE merge_loop(breaches_starts, 2, breaches_starts[1],
                    breaches_starts[1] + window, <<>>, window, wstart)

breaches_of(self, gc) == [i \in DOMAIN gc |-> breach(self.mini, self.maxi, gc[i])]

EnforceGCContent_evaluate(self, sequence) ==
    LET location == IF self.location # None THEN self.location
                    ELSE Location(0, Len(sequence))
        wstart == location.start
        wend == location.end
        region == extract_sequence(location, sequence)
        gc == gc_content(region, self.window)
        breaches == breaches_of(self, gc)
        den == self.mini.d * self.maxi.d
               * (IF self.window = WindowNone THEN Len(region) ELSE self.window)
        score == Rat(0 - SumTo(breaches, Len(breaches)), den)
        breaches_starts == nonzero(breaches, Len(breaches))
        locs == breaches_locations_of(breaches_starts, self.window, wstart, wend)
        breaches_locations == [j \in DOMAIN locs |-> Location(locs[j][1], locs[j][2])]
    IN  SpecEvaluation(score, breaches_locations,
                       IF locs = <<>> THEN "Passed !" ELSE "Out of bound on segments")

\* (a variant that does not extend the query)
localized_extension_none(window) == 0

\* extension = 0 if self.window is None else self.window - 1, where the
\* window is known to be set
localized_extension(window) == window - 1

\* location.extended(self.window + 1), when self.location is None
localized_unbound_extension(window) == window + 1

EnforceGCContent_localized(self, location) ==
    IF self.location # None
    THEN IF self.window = WindowNone THEN self
         ELSE IF overlap_region(self.location, location) = None
         THEN VoidSpecification(self)
         ELSE copy_with_changes_location(self,
                  overlap_region(self.location,
                                 extended(location, localized_extension(self.window))))
    ELSE IF self.window # WindowNone
         THEN copy_with_changes_location(self,
                  extended(location, localized_unbound_extension(self.window)))
         ELSE copy_with_changes_location(self, None)

\* --------------------------------------------------- AvoidNonuniqueSegments
AvoidNonuniqueSegments_init(min_length, location, include_reverse_complement) ==
    [type |-> "AvoidNonuniqueSegments",
     min_length |-> min_length,
     location |-> location,
     include_reverse_complement |-> include_reverse_complement]

\* initialize_on_problem assigns self.location in place and returns nothing:
\* this is the object after the call.
AvoidNonuniqueSegments_initialize_on_problem(self, sequence) ==
    IF self.location = None
    THEN [self EXCEPT !.location = Location(0, Len(sequence))]
    ELSE self

\* range(len(sequence) - self.min_length), as the sequence 0, 1, ...
kmer_range(length, min_length) ==
    [j \in 1..(length - min_length) |-> j - 1]

\* The (start, end) a reverse-complement k-mer at i is filed under
rc_position(length, start, end) == <<length - end, length - start>>

\* (a variant that ignores include_reverse_complement)
positions_list_forward_only(sequence, min_length, include_reverse_complement, kmer) ==
    LET range == kmer_range(Len(sequence), min_length)
        fwd == SelectSeq(range, LAMBDA i : PySlice(sequence, i, i + min_length) = kmer)
    IN  [j \in 1..Len(fwd) |-> <<fwd[j], fwd[j] + min_length>>]

\* kmers_locations[kmer]: the forward positions, then the positions found on
\* the reverse complement, in the order the two loops append them.
positions_list(sequence, min_length, include_reverse_complement, kmer) ==
    LET range == kmer_range(Len(sequence), min_length)
        rev_complement == reverse_complement(sequence)
        fwd == SelectSeq(range, LAMBDA i : PySlice(sequence, i, i + min_length) = kmer)
        rev == SelectSeq(range, LAMBDA i : PySlice(rev_complement, i, i + min_length) = kmer)
    IN  [j \in 1..Len(fwd) |-> <<fwd[j], fwd[j] + min_length>>]
        \o (IF include_reverse_complement
            THEN [j \in 1..Len(rev) |->
                     rc_position(Len(sequence), rev[j], rev[j] + min_length)]
            ELSE <<>>)

\* kmers_locations.keys()
kmers_keys(sequence, min_length, include_reverse_complement) ==
    LET range == kmer_range(Len(sequence), min_length)
        rev_complement == reverse_complement(sequence)
    IN  {PySlice(sequence, range[j], range[j] + min_length) : j \in DOMAIN range}
        \cup (IF include_reverse_complement
              THEN {PySlice(rev_complement, range[j], range[j] + min_length) :
                        j \in DOMAIN range}
              ELSE {})

\* min(positions_list, key=lambda p: p[0])
RECURSIVE min_position(_, _)
min_position(positions, n) ==
    IF n = 1 THEN positions[1]
    ELSE LET m == min_position(positions, n - 1)
         IN  IF positions[n][1] < m[1] THEN positions[n] ELSE m

\* sorted([...]) of the first occurrence of every k-mer filed more than once:
\* every (start, end) has end = start + min_length, so the order is by start,
\* and a start that is the first occurrence of several k-mers is listed once
\* per k-mer.
RECURSIVE sorted_locations(_, _, _, _)
sorted_locations(firsts, keys, start, last) ==
    IF start > last THEN <<>>
    ELSE LET here == {k \in keys : firsts[k][1] = start}
         IN  [j \in 1..Cardinality(here) |->
                 Location(start, firsts[CHOOSE k \in here : TRUE][2])]
             \o sorted_locations(firsts, keys, start + 1, last)

AvoidNonuniqueSegments_evaluate(self, problem_sequence) ==
    IF self.location = None THEN AttributeError
    ELSE
    LET sequence == extract_sequence(self.location, problem_sequence)
        keys == kmers_keys(sequence, self.min_length, self.include_reverse_complement)
        kmers_locations ==
            [k \in keys |-> positions_list(sequence, self.min_length,
                                           self.include_reverse_complement, k)]
        repeated == {k \in keys : Len(kmers_locations[k]) > 1}
        firsts == [k \in repeated |->
                      min_position(kmers_locations[k], Len(kmers_locations[k]))]
        locations == sorted_locations(firsts, repeated, 0, Len(sequence))
    IN  IF locations = <<>>
        THEN SpecEvaluation(Rat(0, 1), <<>>, "Passed: no nonunique k-mer found.")
        ELSE SpecEvaluation(Rat(0 - Len(locations), 1), locations,
                            "Failed, the following positions are the first occurences")

AvoidNonuniqueSegments_localized(self, location) ==
    IF self.location = None THEN AttributeError
    ELSE IF overlap_region(self.location, location) = None
    THEN VoidSpecification(self)
    ELSE self

\* ------------------------------------------------------------------ inputs
RatZero == Rat(0, 1)
RatHalf == Rat(1, 2)
RatOne == Rat(1, 1)

\* The sequences of length 1..n over an alphabet
SeqsUpTo(alphabet, n) == UNION {[1..m -> alphabet] : m \in 1..n}

\* "AAAATTTT" + "GCGCGCGC" + "AAAATTTT"
GCScenario ==
    <<"A","A","A","A","T","T","T","T","G","C","G","C","G","C","G","C",
      "A","A","A","A","T","T","T","T">>
\* windows of 5 starting at 10 and 12 hold 4 G, the one at 11 and all others <= 3
MergeScenario ==
    <<"A","A","A","A","A","A","A","A","A","A","G","A","G","G","G","A","G">>
\* windows of 1: G at 0 and 2 merge around the A at 1, the G at 6 is apart
SplitScenario == <<"G","A","G","A","A","A","G">>
RepeatScenario == <<"A","T","G","C","A","T","G","C">>
ReverseScenario == <<"A","T","G","C","G","C","A","T">>
PalindromeScenario == <<"G","C","G","C">>

UniqScenarios == {RepeatScenario, ReverseScenario, PalindromeScenario}
GCSequences ==
    SeqsUpTo({"A", "G"}, MaxLen) \cup {GCScenario, MergeScenario, SplitScenario}
UniqSequences == SeqsUpTo({"A", "T", "G", "C"}, MaxUniqLen) \cup UniqScenarios

\* The non-empty locations inside a sequence of length n
LocationsIn(n) ==
    {Location(p[1], p[2]) : p \in {q \in (0..n) \X (0..n) : q[1] < q[2]}}

\* <<(mini, maxi, target), window, location>> of the EnforceGCContent
\* constructed on a problem
GCParams(sequence) ==
    IF sequence = GCScenario
    THEN {<< <<Rat(2, 5), Rat(3, 5), None>>, 8, None >>}
    ELSE IF sequence = MergeScenario
    THEN {<< <<RatZero, Rat(3, 5), None>>, 5, l >> :
              l \in {None, Location(0, Len(sequence))}}
    ELSE IF sequence = SplitScenario
    THEN {<< <<RatZero, RatHalf, None>>, 1, l >> :
              l \in {None, Location(0, Len(sequence))}}
    ELSE {<<RatZero, RatHalf, None>>, <<RatZero, RatOne, RatHalf>>,
          <<RatOne, RatHalf, None>>}
         \X ({WindowNone} \cup 1..MaxWindow)
         \X ({None} \cup LocationsIn(Len(sequence)))

\* <<min_length, location, include_reverse_complement>>
UniqParams(sequence) ==
    (IF sequence \in UniqScenarios
     THEN {4} \X {None, Location(0, Len(sequence))} \X BOOLEAN
     ELSE {})
    \cup
    (IF Len(sequence) <= MaxUniqLen
     THEN (1..MaxKmer) \X ({None} \cup LocationsIn(Len(sequence))) \X BOOLEAN
     ELSE {})

\* The locations a caller localizes an EnforceGCContent to, and the ranges a
\* mutation covers: one or two positions
Queries(sequence) ==
    {l \in LocationsIn(Len(sequence)) : l.end - l.start <= 2}

\* The locations a caller localizes an AvoidNonuniqueSegments to: one position
UniqQueries(sequence) ==
    {l \in LocationsIn(Len(sequence)) : l.end - l.start = 1}

\* ------------------------------------------------------------------- state
VARIABLES
    sequence,   \* problem.sequence
    self,       \* the specification object, None before its construction
    op,         \* the operation that ran last
    arg,        \* its location argument, None when it has none
    ret,        \* what it returned, or the exception it raised
    mutation    \* None, or the last mutation: the sequence before it and its range

vars == <<sequence, self, op, arg, ret, mutation>>

InitGC ==
    /\ sequence \in GCSequences
    /\ self = None
    /\ op = "problem"
    /\ arg = None
    /\ ret = None
    /\ mutation = None

InitUniq ==
    /\ sequence \in UniqSequences
    /\ self = None
    /\ op = "problem"
    /\ arg = None
    /\ ret = None
    /\ mutation = None

Init == InitGC \/ InitUniq

ConstructGC ==
    /\ self = None
    /\ sequence \in GCSequences
    /\ \E p \in GCParams(sequence) :
          self' = EnforceGCContent_init(p[1][1], p[1][2], p[1][3], p[2], p[3], RatOne)
    /\ op' = "__init__"
    /\ UNCHANGED <<sequence, arg, ret, mutation>>

ConstructUniq ==
    /\ self = None
    /\ sequence \in UniqSequences
    /\ \E p \in UniqParams(sequence) :
          self' = AvoidNonuniqueSegments_init(p[1], p[2], p[3])
    /\ op' = "__init__"
    /\ UNCHANGED <<sequence, arg, ret, mutation>>

InitializeOnProblemGC ==
    /\ self.type = "EnforceGCContent"
    /\ mutation = None
    /\ ret' = EnforceGCContent_initialize_on_problem(self, sequence)
    /\ op' = "initialize_on_problem"
    /\ arg' = None
    /\ UNCHANGED <<sequence, self, mutation>>

InitializeOnProblemUniq ==
    /\ self.type = "AvoidNonuniqueSegments"
    /\ mutation = None
    /\ self' = AvoidNonuniqueSegments_initialize_on_problem(self, sequence)
    /\ ret' = None
    /\ op' = "initialize_on_problem"
    /\ arg' = None
    /\ UNCHANGED <<sequence, mutation>>

EvaluateGC ==
    /\ self.type = "EnforceGCContent"
    /\ ret' = EnforceGCContent_evaluate(self, sequence)
    /\ op' = "evaluate"
    /\ arg' = None
    /\ UNCHANGED <<sequence, self, mutation>>

EvaluateUniq ==
    /\ self.type = "AvoidNonuniqueSegments"
    /\ ret' = AvoidNonuniqueSegments_evaluate(self, sequence)
    /\ op' = "evaluate"
    /\ arg' = None
    /\ UNCHANGED <<sequence, self, mutation>>

\* After a mutation the optimizer localizes to the mutated range.
LocalizedGC ==
    /\ self.type = "EnforceGCContent"
    /\ \E q \in Queries(sequence) :
          /\ mutation # None => q = mutation.location
          /\ ret' = EnforceGCContent_localized(self, q)
          /\ arg' = q
    /\ op' = "localized"
    /\ UNCHANGED <<sequence, self, mutation>>

LocalizedUniq ==
    /\ self.type = "AvoidNonuniqueSegments"
    /\ \E q \in UniqQueries(sequence) :
          /\ ret' = AvoidNonuniqueSegments_localized(self, q)
          /\ arg' = q
    /\ op' = "localized"
    /\ UNCHANGED <<sequence, self, mutation>>

\* One candidate mutation of the problem's sequence, proposed while the
\* localizable specification is attached: the symbols of a range are replaced,
\* the rest is kept.
Mutate ==
    /\ self.type = "EnforceGCContent"
    /\ mutation = None
    /\ \E q \in Queries(sequence), c \in {"A", "G"} :
          /\ sequence' = [i \in 1..Len(sequence) |->
                             IF q.start < i /\ i <= q.end THEN c ELSE sequence[i]]
          /\ mutation' = [type |-> "Mutation", pre |-> sequence, location |-> q]
          /\ arg' = q
    /\ op' = "mutate"
    /\ ret' = None
    /\ UNCHANGED self

NextGC ==
    \/ ConstructGC
    \/ InitializeOnProblemGC
    \/ EvaluateGC
    \/ LocalizedGC
    \/ Mutate

NextUniq ==
    \/ ConstructUniq
    \/ InitializeOnProblemUniq
    \/ EvaluateUniq
    \/ LocalizedUniq

Next == NextGC \/ NextUniq

Spec == Init /\ [][Next]_vars
SpecGC == InitGC /\ [][NextGC]_vars
SpecUniq == InitUniq /\ [][NextUniq]_vars

\* ===================================================================
\* Properties
\* ===================================================================
IsGCSpec == self.type = "EnforceGCContent"
IsUniqSpec == self.type = "AvoidNonuniqueSegments"

RatLeq(a, b) == a.n * b.d <= b.n * a.d

\* The members of a set of integers in increasing order
RECURSIVE Sorted(_)
Sorted(S) ==
    IF S = {} THEN <<>>
    ELSE LET m == CHOOSE x \in S : \A y \in S : x <= y
         IN  <<m>> \o Sorted(S \ {m})

\* The sum of g over the set S
RECURSIVE SumFn(_, _)
SumFn(g, S) ==
    IF S = {} THEN 0
    ELSE LET x == CHOOSE x \in S : TRUE IN g[x] + SumFn(g, S \ {x})

\* ---- the k-mers of a region, by definition
KmerStarts(region, k) == 0..(Len(region) - k)
KmerAt(region, k, p) == [j \in 1..k |-> region[p + j]]
\* the starts whose k-mer also occurs at another start
RepeatedStarts(region, k) ==
    {p \in KmerStarts(region, k) :
        \E q \in KmerStarts(region, k) :
            q # p /\ KmerAt(region, k, q) = KmerAt(region, k, p)}
\* the first occurrence of every k-mer that occurs more than once
FirstOccurrences(region, k) ==
    {p \in RepeatedStarts(region, k) :
        \A q \in KmerStarts(region, k) :
            KmerAt(region, k, q) = KmerAt(region, k, p) => p <= q}

\* C1: AvoidNonuniqueSegments.evaluate looks at the k-mer of every start
\* 0 .. len(region) - min_length, the last included: the score is minus the
\* number of distinct k-mers found at more than one start and the breaches are
\* the first occurrence of each, sorted ("ATGCATGC", min_length 4: -1, (0,4)).
\* Stated for include_reverse_complement=False.
C1_ScoreCountsRepeatedKmers ==
    (op = "evaluate" /\ IsUniqSpec /\ self.location # None
     /\ ~self.include_reverse_complement)
    => LET region == extract_sequence(self.location, sequence)
           k == self.min_length
           firsts == Sorted(FirstOccurrences(region, k))
       IN  /\ ret.type = "SpecEvaluation"
           /\ ret.score = Rat(0 - Len(firsts), 1)
           /\ ret.locations = [j \in 1..Len(firsts) |->
                                  Location(firsts[j], firsts[j] + k)]

\* ---- the windows of a region, by definition
\* the number of G/C symbols in the window of length w starting at s (0-based)
GCIn(seq, s, w) == Cardinality({p \in (s + 1)..(s + w) : IsGC(seq[p])})
\* max(0, mini - gc) + max(0, gc - maxi) for gc = c / w, times mini.d * maxi.d * w
Magnitude(spec, c, w) ==
    Max(0, spec.mini.n * w - c * spec.mini.d) * spec.maxi.d
    + Max(0, c * spec.maxi.d - spec.maxi.n * w) * spec.mini.d
\* c / w lies in [mini, maxi]
Compliant(spec, c, w) ==
    /\ spec.mini.n * w <= c * spec.mini.d
    /\ c * spec.maxi.d <= spec.maxi.n * w
\* the region a specification covers in a sequence, as absolute bounds
RegionStart(spec) == IF spec.location = None THEN 0 ELSE spec.location.start
RegionEnd(spec, seq) ==
    IF spec.location = None THEN Len(seq) ELSE Min(spec.location.end, Len(seq))
\* the length of a window, and the absolute starts of the windows of a region
WindowLen(spec, seq) ==
    IF spec.window = WindowNone THEN RegionEnd(spec, seq) - RegionStart(spec)
    ELSE spec.window
WindowStarts(spec, seq) ==
    IF spec.window = WindowNone THEN {RegionStart(spec)}
    ELSE RegionStart(spec)..(RegionEnd(spec, seq) - spec.window)
WindowMagnitude(spec, seq) ==
    [s \in WindowStarts(spec, seq) |->
        Magnitude(spec, GCIn(seq, s, WindowLen(spec, seq)), WindowLen(spec, seq))]
TotalMagnitude(spec, seq) == SumFn(WindowMagnitude(spec, seq), WindowStarts(spec, seq))
BreachingStarts(spec, seq) ==
    {s \in WindowStarts(spec, seq) : WindowMagnitude(spec, seq)[s] > 0}

\* the case C2 is about: a windowed, bound EnforceGCContent localized to the
\* range of a mutation that overlaps its location
C2_Applies ==
    /\ op = "localized" /\ mutation # None /\ IsGCSpec
    /\ self.window # WindowNone /\ self.location # None
    /\ overlap_region(self.location, arg) # None

\* C2: localization soundness of EnforceGCContent with a window W, R = W - 1,
\* bound to L, for a mutation confined to a range [a,b) that overlaps L: the
\* score of localized([a,b)) on the mutated sequence plus the (negated) breach
\* magnitudes, on the sequence before, of the windows of L not contained in
\* [a-R, b+R) is the score of the whole specification on the mutated sequence,
\* and the whole and the localized scores change by the same amount.
\* (All four scores are fractions over the same denominator.)
C2_LocalizationSound ==
    C2_Applies
    => LET pre == mutation.pre
           R == self.window - 1
           outside == {s \in WindowStarts(self, pre) :
                          ~(arg.start - R <= s /\ s + self.window <= arg.end + R)}
           whole_post == EnforceGCContent_evaluate(self, sequence).score
           whole_pre == EnforceGCContent_evaluate(self, pre).score
       IN  /\ ret.type = "EnforceGCContent"
           /\ LET local_post == EnforceGCContent_evaluate(ret, sequence).score
                  local_pre == EnforceGCContent_evaluate(ret, pre).score
              IN  /\ {whole_pre.d, local_post.d, local_pre.d} = {whole_post.d}
                  /\ local_post.n - SumFn(WindowMagnitude(self, pre), outside)
                     = whole_post.n
                  /\ whole_post.n - whole_pre.n = local_post.n - local_pre.n

\* C2 witness: a mutation changed the whole score, the localized copy covers
\* less than L, and a window outside the localized range breaches.
C2_Witness ==
    /\ C2_Applies
    /\ ret.type = "EnforceGCContent"
    /\ ret.location # self.location
    /\ EnforceGCContent_evaluate(self, sequence).score
       # EnforceGCContent_evaluate(self, mutation.pre).score
    /\ EnforceGCContent_evaluate(ret, sequence).score
       # EnforceGCContent_evaluate(self, sequence).score
    /\ self.window > 1

\* What evaluate returns for any specification localized can return
EvaluateAny(spec, seq) ==
    CASE spec.type = "VoidSpecification" -> VoidSpecification_evaluate(spec, seq)
      [] spec.type = "EnforceGCContent" -> EnforceGCContent_evaluate(spec, seq)
      [] spec.type = "AvoidNonuniqueSegments" -> AvoidNonuniqueSegments_evaluate(spec, seq)

\* C3: for an EnforceGCContent (with or without a window) and for an
\* AvoidNonuniqueSegments whose location is set, localized(query) for a query
\* that does not overlap that location returns a Void specification, which
\* evaluates to score 0 with no breach.
C3_DisjointQueryIsVoid ==
    (op = "localized" /\ (IsGCSpec \/ IsUniqSpec) /\ self.location # None
     /\ overlap_region(self.location, arg) = None)
    => /\ ret.type = "VoidSpecification"
       /\ EvaluateAny(ret, sequence).score.n = 0
       /\ EvaluateAny(ret, sequence).locations = <<>>

\* C4: EnforceGCContent.evaluate returns minus the sum, over every window of
\* the bound region (the whole region when window is None), of
\* max(0, mini - gc) + max(0, gc - maxi); the score is 0 exactly when every
\* window's GC fraction lies in [mini, maxi] and negative otherwise, and the
\* breach list is empty exactly when the score is 0.  On the 24 bp scenario
\* (mini 0.4, maxi 0.6, window 8) the score is -3.
C4_ScoreIsBreachSum ==
    (op = "evaluate" /\ IsGCSpec)
    => LET w == WindowLen(self, sequence)
       IN  /\ ret.type = "SpecEvaluation"
           /\ ret.score.d = self.mini.d * self.maxi.d * w
           /\ ret.score.n = 0 - TotalMagnitude(self, sequence)
           /\ ret.score.n <= 0
           /\ (ret.score.n = 0) <=>
                 (\A s \in WindowStarts(self, sequence) :
                     Compliant(self, GCIn(sequence, s, w), w))
           /\ (ret.locations = <<>>) <=> (ret.score.n = 0)
           /\ (sequence = GCScenario /\ mutation = None)
                 => ret.score.n = 0 - 3 * ret.score.d

\* C4 witness: a windowed evaluation with a breaching and a compliant window.
C4_Witness ==
    /\ op = "evaluate" /\ IsGCSpec /\ self.window # WindowNone
    /\ ret.score.n < 0
    /\ ret.locations # <<>>
    /\ \E s \in WindowStarts(self, sequence) : WindowMagnitude(self, sequence)[s] = 0

\* ---- the runs of breaching window starts, by definition: a start opens a run
\* when it is the first one or lies more than `window` past the end (start +
\* window) of the window before it, and closes a run symmetrically.
RunFirsts(starts, w) ==
    {s \in starts : \A t \in starts : t < s => s > (t + w) + w}
RunLasts(starts, w) ==
    {s \in starts : \A t \in starts : t > s => t > (s + w) + w}

ReversePairs(region, k) ==
    {pq \in KmerStarts(region, k) \X KmerStarts(region, k) :
        /\ pq[1] # pq[2]
        /\ KmerAt(region, k, pq[1])
           = reverse_complement(KmerAt(region, k, pq[2]))}

WithReverse(spec, flag) == [spec EXCEPT !.include_reverse_complement = flag]

\* C6: with include_reverse_complement=True the score is negative whenever a
\* k-mer of the region has its reverse complement at another start of the
\* region ("ATGC" + "GCAT", min_length 4); with the flag off only forward
\* repeats are scored (score 0 on "ATGCGCAT"); and for every sequence the score
\* with the flag on is at most the score with the flag off.
C6_ReverseComplementRepeats ==
    (op = "evaluate" /\ IsUniqSpec /\ self.location # None)
    => LET region == extract_sequence(self.location, sequence)
           k == self.min_length
           on == AvoidNonuniqueSegments_evaluate(WithReverse(self, TRUE), sequence)
           off == AvoidNonuniqueSegments_evaluate(WithReverse(self, FALSE), sequence)
       IN  /\ ret.type = "SpecEvaluation"
           /\ (self.include_reverse_complement /\ ReversePairs(region, k) # {})
                 => ret.score.n < 0
           /\ (~self.include_reverse_complement /\ ret.score.n < 0)
                 => RepeatedStarts(region, k) # {}
           /\ on.score.n <= off.score.n
           /\ (sequence = ReverseScenario /\ k = 4)
                 => /\ ReversePairs(region, k) # {}
                    /\ ret.score.n < 0 <=> self.include_reverse_complement

\* C6 witness: an evaluation with the flag on that is negative only because of
\* a reverse-complement pair.
C6_Witness ==
    /\ op = "evaluate" /\ IsUniqSpec /\ self.location # None
    /\ self.include_reverse_complement
    /\ ReversePairs(extract_sequence(self.location, sequence), self.min_length) # {}
    /\ RepeatedStarts(extract_sequence(self.location, sequence), self.min_length) = {}
    /\ self.min_length > 1
    /\ ret.score.n < 0
    /\ AvoidNonuniqueSegments_evaluate(WithReverse(self, FALSE), sequence).score.n = 0

\* C7: initialize_on_problem on an EnforceGCContent or AvoidNonuniqueSegments
\* whose location is unset returns a specification whose location is
\* [0, len(sequence)), and calling it again on the returned specification
\* returns a specification with the same location and parameters.
C7_InitializeBindsFullSequence ==
    [][ (op' = "initialize_on_problem" /\ (IsGCSpec \/ IsUniqSpec)
         /\ self.location = None)
        => /\ ret'.type = self.type
           /\ ret'.location = Location(0, Len(sequence))
           /\ ret' = [self EXCEPT !.location = Location(0, Len(sequence))]
           /\ IsGCSpec => EnforceGCContent_initialize_on_problem(ret', sequence) = ret'
      ]_vars

\* C8: evaluating an EnforceGCContent or AvoidNonuniqueSegments whose location
\* is None raises nothing: it evaluates over [0, len(sequence)) and returns a
\* SpecEvaluation.
C8_UnboundEvaluates ==
    (op = "evaluate" /\ (IsGCSpec \/ IsUniqSpec) /\ self.location = None)
    => /\ ret.type = "SpecEvaluation"
       /\ ret = EvaluateAny([self EXCEPT !.location = Location(0, Len(sequence))],
                            sequence)

\* C9: no EnforceGCContent with mini > maxi exists: its construction fails.
C9_MiniAtMostMaxi ==
    IsGCSpec => RatLeq(self.mini, self.maxi)

\* C10: EnforceGCContent.localized(q) with a window W expands q to
\* [max(0, q.start - (W-1)), q.end + (W-1)) in every case; it returns a copy
\* whose location is the expanded range intersected with the own location (the
\* expanded range itself when the own location is unset), and Void exactly when
\* the expanded range does not overlap the own location.
C10_RadiusIsWindowMinusOne ==
    (op = "localized" /\ IsGCSpec /\ self.window # WindowNone)
    => LET expanded == [type |-> "Location",
                        start |-> Max(0, arg.start - (self.window - 1)),
                        end |-> arg.end + (self.window - 1),
                        strand |-> arg.strand]
       IN  IF self.location = None
           THEN ret = [self EXCEPT !.location = expanded]
           ELSE IF overlap_region(self.location, expanded) = None
           THEN ret.type = "VoidSpecification"
           ELSE ret = [self EXCEPT
                          !.location = overlap_region(self.location, expanded)]

\* ---- where a Location lies
Inside(l, outer) == outer.start <= l.start /\ l.end <= outer.end
\* the Locations of an evaluation, as a set
Reported(evaluation) == {evaluation.locations[j] : j \in DOMAIN evaluation.locations}

\* C11: every breach Location evaluate returns is in the coordinates of the
\* problem's full sequence and lies inside the bound location [L.start, L.end),
\* for any L.start >= 0 and any number of breaches: for EnforceGCContent every
\* breaching window [L.start + s, L.start + s + window) is contained in a
\* reported Location, and for AvoidNonuniqueSegments every reported Location
\* is where its k-mer stands in the full sequence, a k-mer that stands at
\* another start of the region too (stated for the forward search).
C11_BreachesInsideLocation ==
    (op = "evaluate" /\ (IsGCSpec \/ IsUniqSpec) /\ self.location # None)
    => /\ ret.type = "SpecEvaluation"
       /\ \A l \in Reported(ret) : Inside(l, self.location)
       /\ (IsGCSpec /\ self.window # WindowNone)
             => \A s \in BreachingStarts(self, sequence) :
                   \E l \in Reported(ret) :
                      Inside(Location(s, s + self.window), l)
       /\ (IsUniqSpec /\ ~self.include_reverse_complement)
             => \A l \in Reported(ret) :
                   /\ l.end = l.start + self.min_length
                   /\ \E q \in self.location.start..(self.location.end - self.min_length) :
                         /\ q # l.start
                         /\ PySlice(sequence, q, q + self.min_length)
                            = PySlice(sequence, l.start, l.end)

\* ---- reverse-complement search, in the coordinates of the region
\* some other start of the region holds k-mer p or its reverse complement
OccursElsewhere(region, k, p) ==
    \E q \in KmerStarts(region, k) :
        /\ q # p
        /\ \/ KmerAt(region, k, q) = KmerAt(region, k, p)
           \/ KmerAt(region, k, q) = reverse_complement(KmerAt(region, k, p))

\* C12: with include_reverse_complement=True a k-mer is counted as non-unique
\* only when it or its reverse complement also stands at a different start of
\* the region, so a k-mer that is its own reverse complement and stands at one
\* start only ("GCGC", min_length 4) is no breach; the reported Locations are
\* pairwise distinct, and the score is minus the number of distinct reported
\* positions.
C12_ReverseComplementElsewhere ==
    (op = "evaluate" /\ IsUniqSpec /\ self.location # None
        /\ self.include_reverse_complement)
    => LET region == extract_sequence(self.location, sequence)
           k == self.min_length
       IN  /\ ret.type = "SpecEvaluation"
           /\ \A l \in Reported(ret) :
                 /\ l.start \in KmerStarts(region, k)
                 /\ OccursElsewhere(region, k, l.start)
           /\ \A i, j \in DOMAIN ret.locations :
                 i # j => ret.locations[i] # ret.locations[j]
           /\ ret.score = Rat(0 - Cardinality(Reported(ret)), 1)
           /\ (region = PalindromeScenario /\ k = 4) => ret.score = Rat(0, 1)

====
